---- MODULE Spec2Model ----
(***************************************************************************)
(* Model of app.py, the cooking voice assistant: the recipe parser         *)
(* (get_recipe_from_ai), the "Get recipe" handler and the "Send" handler   *)
(* (the command router) acting on st.session_state.                        *)
(*                                                                         *)
(* Python strings are modelled as sequences of one-character strings, so   *)
(* that split, strip, lower, startswith, the `in` substring test and the   *)
(* f-string formatting are computed character by character.                *)
(***************************************************************************)
EXTENDS Integers, Sequences, FiniteSets, TLC

VARIABLES
    dish,           \* state.dish
    ingredients,    \* state.ingredients
    steps,          \* state.steps
    current_step,   \* state.current_step
    chat_history,   \* state.chat_history : sequence of <<role, text>>
    content,        \* completion.choices[0].message.content of the last recipe call
    recipe,         \* value last returned by get_recipe_from_ai
    user_cmd,       \* Send handler local: the normalised command
    response_text,  \* Send handler local: the response written to the page
    op,             \* which handler ran last
    outcome         \* how it ended: "ok", "warning" (empty input), "llm_error"

vars == <<dish, ingredients, steps, current_step, chat_history,
          content, recipe, user_cmd, response_text, op, outcome>>

-----------------------------------------------------------------------------
(* Bounds of the model *)

\* longest chat_history explored
MaxHistory == 7
\* lines per arbitrary model reply explored by the parser specification
MaxLines == 5
\* ingredient lines / step lines per conventional reply
MaxItems == 2

-----------------------------------------------------------------------------
(* Python str primitives *)

UpperCase == <<"A","B","C","D","E","F","G","H","I","J","K","L","M","N","O","P","Q","R","S","T","U","V","W","X","Y","Z">>
LowerCase == <<"a","b","c","d","e","f","g","h","i","j","k","l","m","n","o","p","q","r","s","t","u","v","w","x","y","z">>
Digits == <<"0","1","2","3","4","5","6","7","8","9">>

\* str.lower() on one character
LowerChar(c) ==
    IF \E i \in 1..26 : UpperCase[i] = c
    THEN LowerCase[CHOOSE i \in 1..26 : UpperCase[i] = c]
    ELSE c

\* str.lower()
Lower(s) == [i \in 1..Len(s) |-> LowerChar(s[i])]

\* characters str.strip() removes
IsSpace(c) == c \in {" ", "\t", "\n", "\r"}

\* str.isdigit() on one character
IsDigit(c) == \E i \in 1..10 : Digits[i] = c

\* str.strip()
Strip(s) ==
    LET keep == {i \in 1..Len(s) : ~IsSpace(s[i])}
    IN  IF keep = {} THEN <<>>
        ELSE LET lo == CHOOSE i \in keep : \A j \in keep : i <= j
                 hi == CHOOSE i \in keep : \A j \in keep : j <= i
             IN  SubSeq(s, lo, hi)

\* str.startswith(p)
StartsWith(s, p) == Len(p) <= Len(s) /\ SubSeq(s, 1, Len(p)) = p

\* p in s  (substring containment)
Contains(s, p) ==
    \E i \in 1..(Len(s) - Len(p) + 1) : SubSeq(s, i, i + Len(p) - 1) = p

\* str.split("\n")
RECURSIVE SplitFrom(_, _, _)
SplitFrom(s, i, cur) ==
    IF i > Len(s) THEN <<cur>>
    ELSE IF s[i] = "\n" THEN <<cur>> \o SplitFrom(s, i + 1, <<>>)
    ELSE SplitFrom(s, i + 1, Append(cur, s[i]))

Split(s) == SplitFrom(s, 1, <<>>)

\* sep.join(parts)
RECURSIVE Join(_, _)
Join(sep, parts) ==
    IF parts = <<>> THEN <<>>
    ELSE IF Len(parts) = 1 THEN parts[1]
    ELSE parts[1] \o sep \o Join(sep, Tail(parts))

\* str(n) for n >= 0, as in an f-string
RECURSIVE Str(_)
Str(n) == IF n < 10 THEN <<Digits[n + 1]>>
          ELSE Str(n \div 10) \o <<Digits[(n % 10) + 1]>>

-----------------------------------------------------------------------------
(* get_recipe_from_ai: the line parser *)

\* lines = [line.strip() for line in content.split("\n") if line.strip()]
Lines(text) ==
    LET raw == Split(text)
        stripped == [i \in 1..Len(raw) |-> Strip(raw[i])]
    IN  SelectSeq(stripped, LAMBDA l : l # <<>>)

ParseInit ==
    [title |-> <<>>, description |-> <<>>, ingredients |-> <<>>, steps |-> <<>>,
     in_ingredients |-> FALSE, in_steps |-> FALSE]

\* the loop body with the steps header leaving in_ingredients set
ParseLine_KeepsIngredients(st, line) ==
    LET lower == Lower(line)
        isIng == StartsWith(lower, <<"i","n","g","r","e","d","i","e","n","t","s">>)
        isSteps == StartsWith(lower, <<"s","t","e","p","s">>)
    IN  IF StartsWith(lower, <<"r","e","c","i","p","e",":">>) THEN [st EXCEPT !.title = line]
        ELSE LET st1 == IF st.description = <<>> /\ ~isIng /\ ~isSteps
                        THEN [st EXCEPT !.description = line] ELSE st
             IN  IF isIng THEN [st1 EXCEPT !.in_ingredients = TRUE, !.in_steps = FALSE]
                 ELSE IF isSteps THEN [st1 EXCEPT !.in_steps = TRUE]
                 ELSE IF st1.in_ingredients
                      THEN [st1 EXCEPT !.ingredients = Append(@, line)]
                 ELSE IF st1.in_steps /\ IsDigit(line[1])
                      THEN [st1 EXCEPT !.steps = Append(@, line)]
                 ELSE st1

\* one iteration of `for line in lines`
ParseLine(st, line) ==
    LET lower == Lower(line)
        isIng == StartsWith(lower, <<"i","n","g","r","e","d","i","e","n","t","s">>)
        isSteps == StartsWith(lower, <<"s","t","e","p","s">>)
    IN  IF StartsWith(lower, <<"r","e","c","i","p","e",":">>) THEN [st EXCEPT !.title = line]
        ELSE LET st1 == IF st.description = <<>> /\ ~isIng /\ ~isSteps
                        THEN [st EXCEPT !.description = line] ELSE st
             IN  IF isIng THEN [st1 EXCEPT !.in_ingredients = TRUE, !.in_steps = FALSE]
                 ELSE IF isSteps THEN [st1 EXCEPT !.in_steps = TRUE, !.in_ingredients = FALSE]
                 ELSE IF st1.in_ingredients
                      THEN [st1 EXCEPT !.ingredients = Append(@, line)]
                 ELSE IF st1.in_steps /\ IsDigit(line[1])
                      THEN [st1 EXCEPT !.steps = Append(@, line)]
                 ELSE st1

RECURSIVE ParseLoop(_, _, _)
ParseLoop(lines, i, st) ==
    IF i > Len(lines) THEN st ELSE ParseLoop(lines, i + 1, ParseLine(st, lines[i]))

\* return title, description, ingredients, steps
get_recipe_from_ai(text) ==
    LET st == ParseLoop(Lines(text), 1, ParseInit)
    IN  [title |-> st.title, description |-> st.description,
         ingredients |-> st.ingredients, steps |-> st.steps]

NoRecipe == [title |-> <<>>, description |-> <<>>, ingredients |-> <<>>, steps |-> <<>>]

-----------------------------------------------------------------------------
(* Inputs explored *)

\* what the user types into "Type dish name"
DishTyped == {<<>>, <<"p","i","e">>}
\* what speech_to_text returns for the dish (<<>> : nothing recognised)
DishSpoken == {<<>>, <<"p","i","e">>}
\* dish_text after `if dish_spoken: dish_text = dish_spoken`
DishNames ==
    {IF dish_spoken # <<>> THEN dish_spoken ELSE dish_text :
        dish_text \in DishTyped, dish_spoken \in DishSpoken}

\* replies of the language model to the recipe prompt
ReplyPie == <<"R","e","c","i","p","e",":"," ","P","i","e","\n","S","w","e","e","t",".","\n","I","n","g","r","e","d","i","e","n","t","s",":","\n","-"," ","1"," ","e","g","g","\n","-"," ","2"," ","c","u","p","s"," ","f","l","o","u","r","\n","S","t","e","p","s",":","\n","1","."," ","M","i","x",".","\n","2","."," ","B","a","k","e",".">>
ReplyBoil == <<"S","t","e","p","s",":","\n","n","o","t","e",":"," ","o","p","t","i","o","n","a","l","\n","1","."," ","B","o","i","l"," ","w","a","t","e","r",".">>
ReplySorry == <<"S","o","r","r","y",".">>
Replies == {ReplyPie, ReplyBoil, ReplySorry}

\* what the user types into "Type command or question"
CmdTyped == {<<>>, <<" ","N","e","x","t"," ">>, <<"r","e","p","e","a","t">>, <<"G","o"," ","B","A","C","K">>, <<"s","t","o","p">>, <<"l","i","s","t"," ","i","n","g","r","e","d","i","e","n","t","s">>,
             <<"l","i","s","t"," ","i","n","g","r","e","d","i","e","n","t","s"," ","a","g","a","i","n">>, <<"h","o","w"," ","m","u","c","h"," ","s","a","l","t">>}
\* what speech_to_text returns for the command
CmdSpoken == {<<>>, <<"n","e","x","t">>}

\* replies of the language model to a free-form question
Answers == {<<" ","A"," ","p","i","n","c","h","."," ">>}

-----------------------------------------------------------------------------
(* The command router of the Send handler *)

MsgFinished == <<"W","e"," ","a","l","r","e","a","d","y"," ","f","i","n","i","s","h","e","d"," ","a","l","l"," ","t","h","e"," ","s","t","e","p","s",".">>
MsgNotStarted == <<"W","e"," ","h","a","v","e"," ","n","o","t"," ","s","t","a","r","t","e","d"," ","y","e","t","."," ","S","a","y"," ","'","n","e","x","t","'"," ","t","o"," ","h","e","a","r"," ","t","h","e"," ","f","i","r","s","t"," ","s","t","e","p",".">>
MsgBeginning == <<"Y","o","u"," ","a","r","e"," ","a","l","r","e","a","d","y"," ","a","t"," ","t","h","e"," ","b","e","g","i","n","n","i","n","g"," ","o","f"," ","t","h","e"," ","r","e","c","i","p","e",".">>
MsgStop == <<"O","k","a","y",","," ","s","t","o","p","p","i","n","g"," ","t","h","e"," ","c","o","o","k","i","n","g"," ","f","l","o","w","."," ","Y","o","u"," ","c","a","n"," ","s","t","i","l","l"," ","a","s","k"," ","q","u","e","s","t","i","o","n","s"," ","a","b","o","u","t"," ","c","o","o","k","i","n","g",".">>
MsgNoIngredients == <<"I"," ","d","o"," ","n","o","t"," ","h","a","v","e"," ","a","n"," ","i","n","g","r","e","d","i","e","n","t","s"," ","l","i","s","t"," ","l","o","a","d","e","d",".">>

IsAdvance(cmd) ==
    \E w \in {<<"n","e","x","t">>, <<"n","e","x","t"," ","s","t","e","p">>, <<"g","o"," ","n","e","x","t">>, <<"c","o","n","t","i","n","u","e">>} : Contains(cmd, w)
IsRepeat(cmd) == Contains(cmd, <<"r","e","p","e","a","t">>) \/ Contains(cmd, <<"a","g","a","i","n">>)
IsGoBack(cmd) == Contains(cmd, <<"b","a","c","k">>) \/ Contains(cmd, <<"p","r","e","v","i","o","u","s">>)
IsStop(cmd) == Contains(cmd, <<"s","t","o","p">>) \/ Contains(cmd, <<"e","x","i","t">>) \/ Contains(cmd, <<"q","u","i","t">>)
IsListIngredients(cmd) ==
    Contains(cmd, <<"i","n","g","r","e","d","i","e","n","t","s"," ","a","g","a","i","n">>) \/ Contains(cmd, <<"l","i","s","t"," ","i","n","g","r","e","d","i","e","n","t","s">>)

\* the if / elif chain: first match wins
Intent(cmd) ==
    IF IsAdvance(cmd) THEN "Advance"
    ELSE IF IsRepeat(cmd) THEN "Repeat"
    ELSE IF IsGoBack(cmd) THEN "GoBack"
    ELSE IF IsStop(cmd) THEN "Stop"
    ELSE IF IsListIngredients(cmd) THEN "ListIngredients"
    ELSE "FreeFormQuestion"

\* user_cmd = (cmd_text or "").lower().strip(), cmd_text replaced by cmd_spoken if any
Commands ==
    {Strip(Lower(IF cmd_spoken # <<>> THEN cmd_spoken ELSE cmd_text)) :
        cmd_text \in CmdTyped, cmd_spoken \in CmdSpoken}

\* the branch each explored command takes
IntentOf == [cmd \in Commands |-> Intent(cmd)]

\* the chain with the Advance branch forgetting `state.current_step += 1`
RouteCursor_NoAdvance(intent, cs, stps) ==
    IF intent = "GoBack" /\ cs > 1 THEN cs - 1 ELSE cs

\* the chain with the GoBack guard written `> 0`
RouteCursor_BackFromOne(intent, cs, stps) ==
    IF intent = "Advance" /\ cs < Len(stps) THEN cs + 1
    ELSE IF intent = "GoBack" /\ cs > 0 THEN cs - 1
    ELSE cs

\* the chain with the Repeat branch moving the cursor back
RouteCursor_RepeatRewinds(intent, cs, stps) ==
    IF intent = "Advance" /\ cs < Len(stps) THEN cs + 1
    ELSE IF intent = "GoBack" /\ cs > 1 THEN cs - 1
    ELSE IF intent = "Repeat" /\ cs > 0 THEN cs - 1
    ELSE cs

\* state.current_step after the chain
RouteCursor(intent, cs, stps) ==
    IF intent = "Advance" /\ cs < Len(stps) THEN cs + 1
    ELSE IF intent = "GoBack" /\ cs > 1 THEN cs - 1
    ELSE cs

\* response_text after the chain; answer is chat_about_cooking's return value
RouteResponse(intent, cs, stps, ings, answer) ==
    CASE intent = "Advance" ->
            IF cs < Len(stps)
            THEN <<"S","t","e","p"," ">> \o Str(cs + 1) \o <<"."," ">> \o stps[cs + 1]
            ELSE MsgFinished
      [] intent = "Repeat" ->
            IF cs > 0
            THEN <<"R","e","p","e","a","t","i","n","g"," ","s","t","e","p"," ">> \o Str(cs) \o <<"."," ">> \o stps[cs]
            ELSE MsgNotStarted
      [] intent = "GoBack" ->
            IF cs > 1
            THEN <<"G","o","i","n","g"," ","b","a","c","k"," ","t","o"," ","s","t","e","p"," ">> \o Str(cs - 1) \o <<"."," ">> \o stps[cs - 1]
            ELSE MsgBeginning
      [] intent = "Stop" -> MsgStop
      [] intent = "ListIngredients" ->
            IF ings # <<>>
            THEN <<"H","e","r","e"," ","a","r","e"," ","t","h","e"," ","i","n","g","r","e","d","i","e","n","t","s"," ","a","g","a","i","n",":"," ">> \o Join(<<" ">>, ings)
            ELSE MsgNoIngredients
      [] OTHER -> answer

\* chat_about_cooking: completion.choices[0].message.content.strip()
chat_about_cooking(raw) == Strip(raw)

\* the values chat_about_cooking returns
AnswerTexts == {chat_about_cooking(raw) : raw \in Answers}

\* the value get_recipe_from_ai returns for each explored reply
Parsed == [reply \in Replies |-> get_recipe_from_ai(reply)]

-----------------------------------------------------------------------------
(* The session *)

Init ==
    /\ dish = <<>>
    /\ ingredients = <<>>
    /\ steps = <<>>
    /\ current_step = 0
    /\ chat_history = <<>>
    /\ content = <<>>
    /\ recipe = NoRecipe
    /\ user_cmd = <<>>
    /\ response_text = <<>>
    /\ op = "start"
    /\ outcome = "ok"

\* a load that leaves the cursor where it was
LoadCursor_Keeps(cs) == cs

\* state.current_step after a recipe has been parsed
LoadCursor(cs) == 0

\* a load that starts the history afresh
LoadHistory_Restarts(hist, d) == <<<<"assistant", <<"L","o","a","d","e","d"," ","r","e","c","i","p","e"," ","f","o","r"," ">> \o d>>>>

\* state.chat_history after a recipe has been parsed
LoadHistory(hist, d) == Append(hist, <<"assistant", <<"L","o","a","d","e","d"," ","r","e","c","i","p","e"," ","f","o","r"," ">> \o d>>)

\* "Get recipe" pressed with no dish name: st.warning
GetRecipeEmpty ==
    \E name \in DishNames :
            /\ name = <<>>
            /\ op' = "GetRecipe"
            /\ outcome' = "warning"
            /\ content' = <<>>
            /\ recipe' = NoRecipe
            /\ user_cmd' = <<>>
            /\ response_text' = <<>>
            /\ UNCHANGED <<dish, ingredients, steps, current_step, chat_history>>

\* "Get recipe" pressed, client.chat.completions.create raises
GetRecipeFails ==
    \E name \in DishNames :
            /\ name # <<>>
            /\ dish' = name
            /\ op' = "GetRecipe"
            /\ outcome' = "llm_error"
            /\ content' = <<>>
            /\ recipe' = NoRecipe
            /\ user_cmd' = <<>>
            /\ response_text' = <<>>
            /\ UNCHANGED <<ingredients, steps, current_step, chat_history>>

\* "Get recipe" pressed, the model replies and the reply is parsed
GetRecipeLoads ==
    \E name \in DishNames, reply \in Replies :
        LET parsed == Parsed[reply]
        IN  /\ name # <<>>
            /\ Len(chat_history) < MaxHistory
            /\ dish' = name
            /\ content' = reply
            /\ recipe' = parsed
            /\ ingredients' = parsed.ingredients
            /\ steps' = parsed.steps
            /\ current_step' = LoadCursor(current_step)
            /\ chat_history' = LoadHistory(chat_history, name)
            /\ op' = "GetRecipe"
            /\ outcome' = "ok"
            /\ user_cmd' = <<>>
            /\ response_text' = <<>>

\* "Send" pressed with nothing typed or spoken: st.warning
SendEmpty ==
    \E cmd \in Commands :
            /\ steps # <<>>
            /\ cmd = <<>>
            /\ op' = "Send"
            /\ outcome' = "warning"
            /\ user_cmd' = cmd
            /\ response_text' = <<>>
            /\ content' = <<>>
            /\ recipe' = NoRecipe
            /\ UNCHANGED <<dish, ingredients, steps, current_step, chat_history>>

\* "Send" pressed, the command is routed and answered
SendRoutes ==
    \E cmd \in Commands, answer \in AnswerTexts :
        LET intent == IntentOf[cmd]
            resp == RouteResponse(intent, current_step, steps, ingredients, answer)
        IN  /\ steps # <<>>
            /\ cmd # <<>>
            /\ Len(chat_history) + 2 <= MaxHistory
            /\ user_cmd' = cmd
            /\ response_text' = resp
            /\ current_step' = RouteCursor(intent, current_step, steps)
            /\ chat_history' = chat_history \o <<<<"user", cmd>>, <<"assistant", resp>>>>
            /\ op' = "Send"
            /\ outcome' = "ok"
            /\ content' = <<>>
            /\ recipe' = NoRecipe
            /\ UNCHANGED <<dish, ingredients, steps>>

\* "Send" pressed with a free-form question, chat_about_cooking raises
SendFails ==
    \E cmd \in Commands :
            /\ steps # <<>>
            /\ cmd # <<>>
            /\ IntentOf[cmd] = "FreeFormQuestion"
            /\ Len(chat_history) < MaxHistory
            /\ user_cmd' = cmd
            /\ response_text' = <<>>
            /\ chat_history' = Append(chat_history, <<"user", cmd>>)
            /\ op' = "Send"
            /\ outcome' = "llm_error"
            /\ content' = <<>>
            /\ recipe' = NoRecipe
            /\ UNCHANGED <<dish, ingredients, steps, current_step>>

Next ==
    \/ GetRecipeEmpty
    \/ GetRecipeFails
    \/ GetRecipeLoads
    \/ SendEmpty
    \/ SendRoutes
    \/ SendFails

Spec == Init /\ [][Next]_vars

-----------------------------------------------------------------------------
(* The parser on its own: every bounded reply text is parsed once *)

\* lines an arbitrary reply is made of
LineVocab == {<<"R","e","c","i","p","e",":"," ","P">>, <<" ","I","N","G","R","E","D","I","E","N","T","S"," ","e","t","c",":">>, <<"-"," ","e","g","g">>, <<"S","t","e","p","s"," ","1","-","2",":">>,
              <<"1","."," ","M","i","x">>, <<" "," ">>}

ArbitraryTexts ==
    {Join(<<"\n">>, ls) : ls \in UNION {[1..n -> LineVocab] : n \in 0..MaxLines}}

\* replies that follow the structure the prompt asks for
Titles == {<<"R","e","c","i","p","e",":"," ","P","i","e">>}
Descriptions == {<<"S","w","e","e","t",".">>, <<"S","t","e","p","s"," ","t","o"," ","j","o","y",".">>}
IngredientLines == {<<"-"," ","1"," ","e","g","g">>, <<"-"," ","2"," ","c","u","p","s"," ","f","l","o","u","r">>}
StepBodies == {<<"M","i","x",".">>, <<"B","a","k","e",".">>}

ConventionalText(title, desc, ings, bodies) ==
    Join(<<"\n">>, <<title, desc, <<"I","n","g","r","e","d","i","e","n","t","s",":">>>> \o ings \o <<<<"S","t","e","p","s",":">>>>
                \o [i \in 1..Len(bodies) |-> Str(i) \o <<"."," ">> \o bodies[i]])

ConventionalTexts ==
    {ConventionalText(t, d, ings, bodies) :
        t \in Titles, d \in Descriptions,
        ings \in UNION {[1..n -> IngredientLines] : n \in 1..MaxItems},
        bodies \in UNION {[1..n -> StepBodies] : n \in 1..MaxItems}}

ParseTexts == ArbitraryTexts \cup ConventionalTexts

InitParse ==
    /\ dish = <<>>
    /\ ingredients = <<>>
    /\ steps = <<>>
    /\ current_step = 0
    /\ chat_history = <<>>
    /\ content \in ParseTexts
    /\ recipe = NoRecipe
    /\ user_cmd = <<>>
    /\ response_text = <<>>
    /\ op = "start"
    /\ outcome = "ok"

\* title, desc, ingredients, steps = get_recipe_from_ai(...)
ParseReply ==
    /\ op = "start"
    /\ recipe' = get_recipe_from_ai(content)
    /\ op' = "parse"
    /\ UNCHANGED <<dish, ingredients, steps, current_step, chat_history,
                   content, user_cmd, response_text, outcome>>

NextParse == ParseReply

SpecParse == InitParse /\ [][NextParse]_vars

-----------------------------------------------------------------------------
(* Properties of the session *)

IsPrefix(a, b) == Len(a) <= Len(b) /\ SubSeq(b, 1, Len(a)) = a

\* the last handler run was a routed command
Routed == op = "Send" /\ outcome = "ok"

Narrated(text) == \E i \in 1..Len(chat_history) : chat_history[i] = <<"assistant", text>>

IsLoadEntry(e) == e[1] = "assistant" /\ StartsWith(e[2], <<"L","o","a","d","e","d"," ","r","e","c","i","p","e"," ","f","o","r"," ">>)

\* C1: in every reachable state the step cursor lies between 0 and the
\* number of steps, whatever loads (successful, failed, shorter, empty) and
\* commands came before.
C1_CursorInRange == 0 <= current_step /\ current_step <= Len(steps)

\* a one-step recipe has just been loaded over a two-step recipe whose
\* second step had been narrated
C1_ShorterReload ==
    /\ op = "GetRecipe" /\ outcome = "ok"
    /\ Len(steps) = 1
    /\ Narrated(<<"S","t","e","p"," ","2","."," ","2","."," ","B","a","k","e",".">>)

\* C2: every Router invocation appends exactly (user, command_text) and then
\* (assistant, response_text) to chat_history.
C2_TwoEntriesPerSend ==
    [][(op' = "Send" /\ user_cmd' # <<>>) =>
          chat_history' = chat_history \o
              <<<<"user", user_cmd'>>, <<"assistant", response_text'>>>>]_vars

\* C3: a command containing "ingredients again" or "list ingredients" is
\* answered with the joined ingredients, or with the no-ingredients message
\* when the list is empty.
C3_ListIngredientsRouting ==
    [][(op' = "Send" /\ outcome' = "ok"
        /\ (Contains(user_cmd', <<"i","n","g","r","e","d","i","e","n","t","s"," ","a","g","a","i","n">>)
            \/ Contains(user_cmd', <<"l","i","s","t"," ","i","n","g","r","e","d","i","e","n","t","s">>))) =>
          response_text' =
              IF ingredients # <<>>
              THEN <<"H","e","r","e"," ","a","r","e"," ","t","h","e"," ","i","n","g","r","e","d","i","e","n","t","s"," ","a","g","a","i","n",":"," ">> \o Join(<<" ">>, ingredients)
              ELSE MsgNoIngredients]_vars

\* the commands sent since the last load, when they were all Advance commands
\* answered one by one; <<>> otherwise
AdvancesSinceLoad ==
    LET loads == {i \in 1..Len(chat_history) : IsLoadEntry(chat_history[i])}
        p == CHOOSE i \in loads : \A j \in loads : j <= i
        tail == SubSeq(chat_history, p + 1, Len(chat_history))
        n == Len(tail) \div 2
    IN  IF /\ loads # {}
           /\ Len(tail) = 2 * n
           /\ \A k \in 1..n : /\ tail[2 * k - 1][1] = "user"
                              /\ IsAdvance(tail[2 * k - 1][2])
                              /\ tail[2 * k][1] = "assistant"
        THEN [k \in 1..n |-> tail[2 * k][2]]
        ELSE <<>>

\* k Advances in a row after a load narrate steps 1..min(k, len(steps))
ConsecutiveAdvances ==
    LET said == AdvancesSinceLoad
    IN  said # <<>> =>
          /\ \A k \in 1..Len(said) :
                said[k] = IF k <= Len(steps)
                          THEN <<"S","t","e","p"," ">> \o Str(k) \o <<"."," ">> \o steps[k]
                          ELSE MsgFinished
          /\ current_step = IF Len(said) <= Len(steps) THEN Len(said) ELSE Len(steps)

\* C4: an Advance command below the end narrates "Step {cursor+1}. {step}"
\* for the cursor before the call and moves the cursor up by one; at the end
\* it answers "We already finished all the steps." and leaves the cursor; so
\* k Advances after a load narrate steps 1..min(k, len(steps)) in order.
C4_Advance ==
    /\ [][(op' = "Send" /\ outcome' = "ok"
           /\ (Contains(user_cmd', <<"n","e","x","t">>) \/ Contains(user_cmd', <<"c","o","n","t","i","n","u","e">>))) =>
             IF current_step < Len(steps)
             THEN /\ response_text' =
                        <<"S","t","e","p"," ">> \o Str(current_step + 1) \o <<"."," ">> \o steps[current_step + 1]
                  /\ current_step' = current_step + 1
             ELSE /\ response_text' = MsgFinished
                  /\ current_step' = current_step]_vars
    /\ []ConsecutiveAdvances

\* a third Advance on a two-step recipe, straight after its load
C4_AdvancePastEnd ==
    /\ Routed /\ IsAdvance(user_cmd)
    /\ Len(steps) = 2
    /\ response_text = MsgFinished
    /\ Len(AdvancesSinceLoad) = 3

\* C5: a GoBack command with the cursor above 1 moves it down by one and
\* answers with the text of the step it lands on; with the cursor at 0 or 1
\* it leaves the cursor and answers that the recipe is at its beginning.
C5_GoBack ==
    [][(op' = "Send" /\ outcome' = "ok"
        /\ (Contains(user_cmd', <<"b","a","c","k">>) \/ Contains(user_cmd', <<"p","r","e","v","i","o","u","s">>))
        /\ ~IsAdvance(user_cmd') /\ ~IsRepeat(user_cmd')) =>
          IF current_step > 1
          THEN /\ current_step' = current_step - 1
               /\ response_text' = <<"G","o","i","n","g"," ","b","a","c","k"," ","t","o"," ","s","t","e","p"," ">> \o Str(current_step')
                                      \o <<"."," ">> \o steps[current_step']
          ELSE /\ current_step' = current_step
               /\ response_text' = MsgBeginning]_vars

\* a GoBack has just moved the cursor from 2 to 1
C5_WentBack ==
    /\ Routed /\ IsGoBack(user_cmd) /\ ~IsAdvance(user_cmd) /\ ~IsRepeat(user_cmd)
    /\ current_step = 1
    /\ response_text = <<"G","o","i","n","g"," ","b","a","c","k"," ","t","o"," ","s","t","e","p"," ","1","."," ","1","."," ","M","i","x",".">>

\* C6: a successful load replaces ingredients and steps by the parsed lists
\* and sets the cursor to 0, and chat_history keeps every earlier entry in
\* place: it is only ever extended.
C6_LoadReplacesRecipe ==
    [][/\ IsPrefix(chat_history, chat_history')
       /\ (op' = "GetRecipe" /\ outcome' = "ok") =>
             /\ ingredients' = Parsed[content'].ingredients
             /\ steps' = Parsed[content'].steps
             /\ current_step' = 0]_vars

\* a recipe has just been loaded while the cursor stood in the middle of
\* another one
C6_ReloadMidRecipe ==
    /\ op = "GetRecipe" /\ outcome = "ok"
    /\ Narrated(<<"S","t","e","p"," ","1","."," ","1","."," ","M","i","x",".">>) /\ ~Narrated(<<"S","t","e","p"," ","2","."," ","2","."," ","B","a","k","e",".">>)
    /\ steps = Parsed[ReplyBoil].steps
    /\ ingredients = <<>>
    /\ current_step = 0

\* C8: the Repeat, Stop, ListIngredients and FreeFormQuestion branches leave
\* current_step, steps, ingredients and dish as they were and only append to
\* chat_history.
C8_OtherBranchesKeepRecipe ==
    [][(op' = "Send" /\ user_cmd' # <<>>
        /\ Intent(user_cmd') \in {"Repeat", "Stop", "ListIngredients", "FreeFormQuestion"}) =>
          /\ UNCHANGED <<current_step, steps, ingredients, dish>>
          /\ IsPrefix(chat_history, chat_history')
          /\ chat_history' # chat_history]_vars

\* a Repeat has just re-read the second step
C8_RepeatedStep ==
    /\ Routed /\ Intent(user_cmd) = "Repeat"
    /\ current_step = 2
    /\ response_text = <<"R","e","p","e","a","t","i","n","g"," ","s","t","e","p"," ","2","."," ","2","."," ","B","a","k","e",".">>

\* C10: dish changes only in an interaction that also replaces ingredients,
\* steps and the cursor by a newly parsed recipe.
C10_DishChangesWithRecipe ==
    [][dish' # dish =>
          /\ op' = "GetRecipe" /\ outcome' = "ok"
          /\ ingredients' = recipe'.ingredients
          /\ steps' = recipe'.steps
          /\ current_step' = 0]_vars

-----------------------------------------------------------------------------
(* Properties of the parser *)

IsTitle(l) == StartsWith(Lower(l), <<"r","e","c","i","p","e",":">>)
IsIngredientsHeader(l) == StartsWith(Lower(l), <<"i","n","g","r","e","d","i","e","n","t","s">>)
IsStepsHeader(l) == StartsWith(Lower(l), <<"s","t","e","p","s">>)
IsHeader(l) == IsIngredientsHeader(l) \/ IsStepsHeader(l)

\* line i comes after an ingredients header with no steps header in between
InIngredientsSection(L, i) ==
    \E j \in 1..(i - 1) :
        /\ IsIngredientsHeader(L[j])
        /\ \A k \in (j + 1)..(i - 1) : ~IsStepsHeader(L[k])

\* line i comes after a steps header with no ingredients header in between
InStepsSection(L, i) ==
    \E j \in 1..(i - 1) :
        /\ IsStepsHeader(L[j])
        /\ \A k \in (j + 1)..(i - 1) : ~IsIngredientsHeader(L[k])

\* the lines of L at the indices in idx, in order
RECURSIVE Pick(_, _, _)
Pick(L, idx, i) ==
    IF i > Len(L) THEN <<>>
    ELSE (IF i \in idx THEN <<L[i]>> ELSE <<>>) \o Pick(L, idx, i + 1)

\* C9: every parsed ingredient is a non-header line lying after an
\* ingredients header and before the next steps header, every parsed step is
\* a line starting with a digit lying after a steps header and before the
\* next ingredients header, other lines of the steps section are dropped, and
\* headers are matched by case-insensitive prefix.
C9_SectionProvenance ==
    op = "parse" =>
        LET L == Lines(content)
            ingIdx == {i \in 1..Len(L) :
                          InIngredientsSection(L, i) /\ ~IsHeader(L[i]) /\ ~IsTitle(L[i])}
            stepIdx == {i \in 1..Len(L) :
                          /\ InStepsSection(L, i) /\ ~IsHeader(L[i]) /\ ~IsTitle(L[i])
                          /\ IsDigit(L[i][1])}
        IN  /\ \A n \in 1..Len(recipe.ingredients) :
                  \E i \in ingIdx : L[i] = recipe.ingredients[n]
            /\ \A n \in 1..Len(recipe.steps) :
                  \E i \in stepIdx : L[i] = recipe.steps[n]
            /\ recipe.ingredients = Pick(L, ingIdx, 1)
            /\ recipe.steps = Pick(L, stepIdx, 1)

\* a reply with an upper-case, indented ingredients header, an ingredient, a
\* steps header, a bulleted line that is dropped and a numbered step
C9_DroppedLine ==
    /\ op = "parse"
    /\ content = <<" ","I","N","G","R","E","D","I","E","N","T","S"," ","e","t","c",":","\n","-"," ","e","g","g","\n","S","t","e","p","s"," ","1","-","2",":","\n","-"," ","e","g","g","\n","1","."," ","M","i","x">>
    /\ recipe.ingredients = <<<<"-"," ","e","g","g">>>>
    /\ recipe.steps = <<<<"1","."," ","M","i","x">>>>

\* the reply is a "Recipe: <name>" line, one description line, "Ingredients:",
\* bulleted ingredient lines, "Steps:" at line k, numbered step lines
FollowsConvention(L, k) ==
    /\ Len(L) >= 6 /\ k \in 5..(Len(L) - 1)
    /\ \A i \in 1..Len(L) : L[i] # <<>> /\ Strip(L[i]) = L[i]
    /\ StartsWith(L[1], <<"R","e","c","i","p","e",":"," ">>)
    /\ ~StartsWith(L[2], <<"R","e","c","i","p","e",":">>) /\ L[2] \notin {<<"I","n","g","r","e","d","i","e","n","t","s",":">>, <<"S","t","e","p","s",":">>}
    /\ L[3] = <<"I","n","g","r","e","d","i","e","n","t","s",":">>
    /\ \A i \in 4..(k - 1) : StartsWith(L[i], <<"-"," ">>)
    /\ L[k] = <<"S","t","e","p","s",":">>
    /\ \A i \in (k + 1)..Len(L) : StartsWith(L[i], Str(i - k) \o <<"."," ">>)

\* C7: for a reply that follows the four-part convention the parser returns
\* its title line, its description line and all its ingredient and step
\* lines, in order.
C7_ConventionalReplyRecovered ==
    op = "parse" =>
        LET L == Split(content)
        IN  \A k \in 1..Len(L) :
                FollowsConvention(L, k) =>
                    recipe = [title |-> L[1], description |-> L[2],
                              ingredients |-> SubSeq(L, 4, k - 1),
                              steps |-> SubSeq(L, k + 1, Len(L))]

====
